---- MODULE Spec2Model ----
(***************************************************************************)
(* runLinter: the rule-dispatch and diagnostic-aggregation engine of the   *)
(* OpenAPI linter, as a state machine.                                      *)
(*                                                                         *)
(* One run of the async function runLinter is followed from its call to    *)
(* the settlement of the promise it returns.  The synchronous part of the  *)
(* function (parse, title, selection check, filter, fan-out) is one step;  *)
(* every rule invocation settles in a step of its own, in any order; the   *)
(* function resumes after `await Promise.all(...)` in a last step.         *)
(*                                                                         *)
(* JavaScript values are records with a `type` field.  A text is kept as   *)
(* its length and the outcome yaml.load has on it: these are the only two  *)
(* things runLinter reads from it.                                         *)
(***************************************************************************)
EXTENDS Integers, Sequences, FiniteSets, TLC

VARIABLES
    content,        \* argument: the raw text
    selectedRules,  \* argument: the caller's rule selection
    pc,             \* "start" | "awaiting" | "done" | "rejected"
    spec,           \* const spec = yaml.load(...)
    specTitle,      \* let specTitle
    diagnostics,    \* let diagnostics
    runnable,       \* const runnable: indices into selectedRules, in order
    invoked,        \* history: the calls ruleFunc(spec, content, rule) made
    calls,          \* one entry per element of runnable: the invocation and
                    \* the promise of its map callback
    allRejection,   \* Promise.all: the reason of the first rejected callback
    completion,     \* history: the slots of calls in the order they completed
    phases,         \* history: the lifecycle phases the run has entered
    returned,       \* the Run Results the promise of runLinter resolved with
    other           \* a second activation of runLinter, suspended while this
                    \* one runs: its arguments and locals (<<>> if none)

vars == <<content, selectedRules, pc, spec, specTitle, diagnostics, runnable,
          invoked, calls, allRejection, completion, phases, returned, other>>

-----------------------------------------------------------------------------
(* Bounds of the model *)

\* longest text, in characters
MaxLen == 1
\* longest rule selection
MaxRules == 2

-----------------------------------------------------------------------------
(* JavaScript values *)

Undefined == [type |-> "undefined"]
Null == [type |-> "null"]
Str(s) == [type |-> "string", value |-> s]
Num(n) == [type |-> "number", value |-> n]
Arr(items) == [type |-> "array", items |-> items]
\* Object.create(null): an object with no properties and no prototype, so
\* neither toString nor valueOf; converting it to a string or to a property
\* key throws a TypeError
NullProtoObject == [type |-> "object", class |-> "nullproto"]
\* an Error (YAMLException, TypeError, ...) with its message
Error(m) == [type |-> "object", class |-> "Error", message |-> m]
\* an object whose `message` accessor throws undefined:
\* { get message() { throw undefined } }
ThrowingMessageObject == [type |-> "object", class |-> "throwingMessage"]
PlainObject == [type |-> "object", class |-> "plain"]

\* a completion: a normal value or a throw
Normal(v) == [threw |-> FALSE, value |-> v]
Throw(e) == [threw |-> TRUE, value |-> e]

TypeErrorToPrimitive == Error("Cannot convert object to primitive value")
TypeErrorToObject == Error("Cannot convert undefined or null to object")
TypeErrorReadUndefined == Error("Cannot read properties of undefined (reading 'message')")

-----------------------------------------------------------------------------
(* Diagnostics *)

\* A Diagnostic as runLinter builds it.  `origin` is not a field of the
\* object: it records the object's identity, <<i, k>> for the k-th element
\* of the array the callback of selectedRules[i] resolved with and <<0, 0>>
\* for the object pushed by the outer catch.
Diagnostic(from, to, severity, message, source, origin) ==
    [from |-> from, to |-> to, severity |-> severity, message |-> message,
     source |-> source, origin |-> origin]

\* the object literal pushed by the outer catch
ParserDiagnosticNoEnd(len, message) ==
    Diagnostic(0, 0, "error", "Specification parsing error: " \o message,
               "parser", <<0, 0>>)
ParserDiagnostic(len, message) ==
    Diagnostic(0, len, "error", "Specification parsing error: " \o message,
               "parser", <<0, 0>>)

\* the object literal returned by the catch of the map callback
RuleFailureItem(funcName, len, text) ==
    [from |-> 0, to |-> len, severity |-> "error",
     message |-> "Rule \"" \o funcName \o "\" execution failed: " \o text,
     source |-> funcName]

\* the elements of an array a callback resolved with, as objects with identity
Tagged(items, i) ==
    [k \in 1..Len(items) |->
        Diagnostic(items[k].from, items[k].to, items[k].severity,
                   items[k].message, items[k].source, <<i, k>>)]

-----------------------------------------------------------------------------
(* Inputs: texts and what yaml.load makes of them *)

YAMLException == Error("bad indentation of a mapping entry")

\* a document with no info section, and documents whose info.title is t
UntitledDocument == [type |-> "object", class |-> "plain", info |-> Undefined]
TitledDocument(t) ==
    [type |-> "object", class |-> "plain",
     info |-> [type |-> "object", class |-> "plain", title |-> t]]

\* elements of a document that is a top-level YAML sequence of mappings with
\* the keys from, to, severity, message and source
ListElementInside(len) ==
    [from |-> 0, to |-> len, severity |-> "info", message |-> "m",
     source |-> "doc"]
ListElementOutside(len) ==
    [from |-> 0, to |-> len + 1, severity |-> "error", message |-> "m",
     source |-> "parser"]

Documents(len) ==
    { UntitledDocument, TitledDocument(Str("Petstore")), TitledDocument(Num(7)),
      Arr(<<ListElementInside(len)>>), Arr(<<ListElementOutside(len)>>) }

\* yaml.load(content, { json: true }): the empty text loads as undefined, any
\* other text either throws a YAMLException or loads as a document
LoadOutcomes(len) ==
    IF len = 0 THEN { Normal(Undefined) }
    ELSE { Throw(YAMLException) } \cup { Normal(d) : d \in Documents(len) }

Texts ==
    UNION { { [length |-> len, load |-> r] : r \in LoadOutcomes(len) } :
            len \in 0..MaxLen }

YamlLoadLenient(text) == IF text.load.threw THEN Normal(Undefined) ELSE text.load
YamlLoad(text) == text.load

\* (spec as any)?.info?.title
TitleDropped(doc) == Undefined
Title(doc) ==
    IF doc.type = "object" /\ doc.info.type = "object" THEN doc.info.title
    ELSE Undefined

-----------------------------------------------------------------------------
(* Inputs: rule selections *)

\* a descriptor { call: { function: f } }
Descriptor(f) ==
    [type |-> "object", class |-> "plain",
     call |-> [type |-> "object", class |-> "plain", function |-> f]]

SelectableIds ==
    { "checkCRUD", "checkHttpsServers", "unknownRule", "constructor", "valueOf" }

Descriptors ==
    { Null, Descriptor(Undefined), Descriptor(NullProtoObject) }
    \cup { Descriptor(Str(id)) : id \in SelectableIds }

\* selectedRules: any; an array of at most MaxRules descriptors, or no array
Selections ==
    { Undefined }
    \cup UNION { { Arr(s) : s \in [1..n -> Descriptors] } : n \in 0..MaxRules }

\* Array.isArray(v)
IsArray(v) == v.type = "array"

\* !Array.isArray(selectedRules) || selectedRules.length === 0
NothingSelected(sel) == ~IsArray(sel) \/ Len(sel.items) = 0

-----------------------------------------------------------------------------
(* The rule registry *)

\* the own properties of the object literal functionsMap
RegistryKeys ==
    { "checkHttpsServers", "checkParamElementPresence",
      "checkElementSensitiveData", "checkAllowedMethods", "checkOASSpec",
      "checkOASVersion", "checkCRUD", "checkSuccessResponse",
      "checkGetIdempotency", "checkGetReturnObject",
      "checkParamElementAbsence", "checkRequestEncapsulation",
      "checkResponseEncapsulation", "checkCompatibility" }

\* functionsMap is an object literal, so its prototype is Object.prototype
\* and a property read that misses the own properties finds these methods
ObjectPrototypeMethods ==
    { "constructor", "hasOwnProperty", "isPrototypeOf", "propertyIsEnumerable",
      "toLocaleString", "toString", "valueOf", "__defineGetter__",
      "__defineSetter__", "__lookupGetter__", "__lookupSetter__" }

CheckFunction(name) == [type |-> "function", kind |-> "check", name |-> name]
BuiltinFunction(name) == [type |-> "function", kind |-> "builtin", name |-> name]

\* functionsMap[key], a property read through the prototype chain
functionsMapGet(key) ==
    IF key \in RegistryKeys THEN CheckFunction(key)
    ELSE IF key \in ObjectPrototypeMethods THEN BuiltinFunction(key)
    ELSE IF key = "__proto__" THEN PlainObject
    ELSE Undefined

\* rule?.call?.function
CallFunction(rule) ==
    IF rule.type = "object" /\ rule.call.type = "object" THEN rule.call.function
    ELSE Undefined

\* !!v
Truthy(v) ==
    CASE v.type \in {"undefined", "null"} -> FALSE
      [] v.type = "string" -> v.value # ""
      [] v.type = "number" -> v.value # 0
      [] OTHER -> TRUE

\* ToPropertyKey(v), for the values a function identifier takes here
ToPropertyKey(v) ==
    CASE v.type = "string" -> Normal(v.value)
      [] v.type = "object" /\ v.class = "nullproto" -> Throw(TypeErrorToPrimitive)
      [] v.type = "object" -> Normal("[object Object]")
      [] OTHER -> Normal(v.type)

\* the predicate of selectedRules.filter:
\*   !!rule?.call?.function && typeof functionsMap[rule.call.function] === 'function'
IsRunnable(rule) ==
    IF ~Truthy(CallFunction(rule)) THEN Normal(FALSE)
    ELSE LET key == ToPropertyKey(CallFunction(rule))
         IN  IF key.threw THEN key
             ELSE Normal(functionsMapGet(key.value).type = "function")

\* selectedRules.filter(...): the indices of the elements kept, in order, or
\* the throw of the first predicate call that throws
RECURSIVE FilterFrom(_, _)
FilterFrom(rules, i) ==
    IF i > Len(rules) THEN Normal(<<>>)
    ELSE LET keep == IsRunnable(rules[i])
         IN  IF keep.threw THEN keep
             ELSE LET rest == FilterFrom(rules, i + 1)
                  IN  IF rest.threw THEN rest
                      ELSE Normal(IF keep.value THEN <<i>> \o rest.value
                                  ELSE rest.value)

FilterUnique(rules) ==
    LET kept == FilterFrom(rules, 1)
    IN  IF kept.threw THEN kept
        ELSE Normal(SelectSeq(kept.value,
                LAMBDA i : \A j \in 1..(i - 1) :
                    CallFunction(rules[j]) # CallFunction(rules[i])))
Filter(rules) == FilterFrom(rules, 1)

\* const funcName = rule.call.function as string
FuncName(rule) == rule.call.function.value

-----------------------------------------------------------------------------
(* What an invocation ruleFunc(spec, content, rule) may do *)

\* the values a check capability throws or rejects with
ThrownValues ==
    { Error("boom"), Undefined, NullProtoObject, ThrowingMessageObject }

\* the findings of a check capability: objects { from, to, severity, message,
\* source } with offsets inside the text
MaxFindings == 2

Finding(name, len, k) ==
    [from |-> 0, to |-> IF k = 1 THEN len ELSE 0, severity |-> "warning",
     message |-> "finding " \o ToString(k), source |-> "rule:" \o name]

Findings(name, len, n) == [k \in 1..n |-> Finding(name, len, k)]

\* a registered check: returns an array of findings, returns something that
\* is no array, or throws (rejects with) a value
CheckOutcomes(name, len) ==
    { Normal(Arr(Findings(name, len, n))) : n \in {0, MaxFindings} }
    \cup { Normal(Undefined) }
    \cup { Throw(e) : e \in ThrownValues }

\* a method of Object.prototype called as a plain function (this undefined)
\* with the arguments (spec, content, rule)
BuiltinCall(name, doc) ==
    CASE name = "constructor" ->
            \* Object(spec): spec itself when it is an object, a new object else
            Normal(IF doc.type \in {"object", "array"} THEN doc ELSE PlainObject)
      [] name = "toString" -> Normal(Str("[object Undefined]"))
      [] name = "isPrototypeOf" /\ doc.type \notin {"object", "array"} ->
            Normal([type |-> "boolean", value |-> FALSE])
      [] OTHER -> Throw(TypeErrorToObject)

\* err?.message || String(err)
FailureText(err) ==
    CASE err.type = "undefined" -> Normal("undefined")
      [] err.type = "null" -> Normal("null")
      [] err.type = "string" -> Normal(err.value)
      [] err.type = "object" /\ err.class = "Error" -> Normal(err.message)
      [] err.type = "object" /\ err.class = "nullproto" -> Throw(TypeErrorToPrimitive)
      [] err.type = "object" /\ err.class = "throwingMessage" -> Throw(Undefined)
      [] OTHER -> Normal("[object Object]")

\* the rest of the map callback once ruleFunc has settled with `out`: the
\* array the callback resolves with, or the value its promise rejects with
MapCallbackMalformedFails(funcName, len, out) ==
    IF ~out.threw
    THEN Normal(IF IsArray(out.value) THEN out.value.items
                ELSE <<RuleFailureItem(funcName, len, "malformed result")>>)
    ELSE LET text == FailureText(out.value)
         IN  IF text.threw THEN text
             ELSE Normal(<<RuleFailureItem(funcName, len, text.value)>>)
MapCallback(funcName, len, out) ==
    IF ~out.threw
    THEN Normal(IF IsArray(out.value) THEN out.value.items ELSE <<>>)
    ELSE LET text == FailureText(out.value)
         IN  IF text.threw THEN text
             ELSE Normal(<<RuleFailureItem(funcName, len, text.value)>>)

\* the outer catch: 'Specification parsing error: ' + error.message
CatchParser(error, len) ==
    CASE error.type \in {"undefined", "null"} -> Throw(TypeErrorReadUndefined)
      [] error.type = "object" /\ error.class = "Error" ->
            Normal(ParserDiagnostic(len, error.message))
      [] OTHER -> Normal(ParserDiagnostic(len, "undefined"))

\* results.flat()
RECURSIVE Flat(_)
Flat(results) ==
    IF results = <<>> THEN <<>> ELSE Head(results) \o Flat(Tail(results))

-----------------------------------------------------------------------------
(* The run *)

Init ==
    /\ content \in Texts
    /\ selectedRules \in Selections
    /\ pc = "start"
    /\ spec = Undefined
    /\ specTitle = Undefined
    /\ diagnostics = <<>>
    /\ runnable = <<>>
    /\ invoked = <<>>
    /\ calls = <<>>
    /\ allRejection = <<>>
    /\ completion = <<>>
    /\ phases = <<"Start">>
    /\ returned = <<>>
    /\ other = <<>>

\* return { diagnostics, specTitle }
ReturnNoTitle(diags, title) ==
    /\ diagnostics' = diags
    /\ returned' = Append(returned, [diagnostics |-> diags, specTitle |-> Undefined])
    /\ pc' = "done"
Return(diags, title) ==
    /\ diagnostics' = diags
    /\ returned' = Append(returned, [diagnostics |-> diags, specTitle |-> title])
    /\ pc' = "done"

\* catch (error: any) { diagnostics.push({...}) } return { diagnostics, specTitle }
\* a throw inside the catch block rejects the promise of runLinter
Caught(error, title) ==
    LET caught == CatchParser(error, content.length)
    IN  IF caught.threw
        THEN pc' = "rejected" /\ UNCHANGED <<diagnostics, returned>>
        ELSE Return(Append(diagnostics, caught.value), title)

\* const ruleFunc = functionsMap[funcName]: one of the registered checks
IsCheck(rule) == functionsMapGet(FuncName(rule)).kind = "check"

\* the invocation of slot s of `kept`: ruleFunc(spec, content, rule).  A check
\* capability is pending until it settles.  A method of Object.prototype has
\* returned or thrown before the callback reaches its await, and the callback
\* has its result.
Invocation(doc, kept, s) ==
    LET rule == selectedRules.items[kept[s]]
        ruleFunc == functionsMapGet(FuncName(rule))
    IN  IF IsCheck(rule)
        THEN [state |-> "pending", out |-> Normal(Undefined), result |-> Normal(<<>>)]
        ELSE LET out == BuiltinCall(ruleFunc.name, doc)
                 result == MapCallback(FuncName(rule), content.length, out)
             IN  [state |-> IF result.threw THEN "rejected" ELSE "fulfilled",
                  out |-> out,
                  result |-> IF result.threw THEN result
                             ELSE Normal(Tagged(result.value, kept[s]))]

\* runLinter from its call to its first await or return
Start ==
    /\ pc = "start"
    /\ LET loaded == YamlLoad(content)
       IN  IF loaded.threw
           THEN /\ Caught(loaded.value, specTitle)
                /\ phases' = phases \o <<"ParseFailed">>
                /\ UNCHANGED <<spec, specTitle, runnable, invoked, calls, completion>>
           ELSE /\ spec' = loaded.value
                /\ specTitle' = Title(loaded.value)
                /\ IF NothingSelected(selectedRules)
                   THEN /\ Return(diagnostics, Title(loaded.value))
                        /\ phases' = phases \o <<"Parsed">>
                        /\ UNCHANGED <<runnable, invoked, calls, completion>>
                   ELSE LET kept == Filter(selectedRules.items)
                        IN  IF kept.threw
                            THEN /\ Caught(kept.value, Title(loaded.value))
                                 /\ phases' = phases \o <<"Parsed", "Selected">>
                                 /\ UNCHANGED <<runnable, invoked, calls, completion>>
                            ELSE /\ runnable' = kept.value
                                 /\ invoked' =
                                      [s \in 1..Len(kept.value) |->
                                         [function |-> FuncName(selectedRules.items[kept.value[s]]),
                                          spec |-> loaded.value,
                                          content |-> content,
                                          rule |-> kept.value[s]]]
                                 /\ calls' =
                                      [s \in 1..Len(kept.value) |->
                                         Invocation(loaded.value, kept.value, s)]
                                 /\ completion' =
                                      SelectSeq([s \in 1..Len(kept.value) |-> s],
                                                LAMBDA s : ~IsCheck(selectedRules.items[kept.value[s]]))
                                 /\ phases' = phases \o <<"Parsed", "Selected",
                                                         "Resolved", "Executing">>
                                 /\ pc' = "awaiting"
                                 /\ UNCHANGED <<diagnostics, returned>>
    /\ UNCHANGED <<content, selectedRules, allRejection, other>>

\* each map callback awaits its own ruleFunc(...) and nothing else: slot s of
\* `cs` can settle whenever it is pending
MaySettleInTurn(cs, s) ==
    cs[s].state = "pending" /\ \A t \in 1..(s - 1) : cs[t].state # "pending"
MaySettle(cs, s) == cs[s].state = "pending"

\* the check capability of slot s settles with `out` and its map callback
\* runs to its end; the first callback to reject rejects Promise.all
Settle(s) ==
    /\ pc # "start"
    /\ s \in 1..Len(calls)
    /\ MaySettle(calls, s)
    /\ LET rule == selectedRules.items[runnable[s]]
       IN  \E out \in CheckOutcomes(FuncName(rule), content.length) :
             LET result == MapCallback(FuncName(rule), content.length, out)
             IN  /\ calls' = [calls EXCEPT ![s] =
                       [state |-> IF result.threw THEN "rejected" ELSE "fulfilled",
                        out |-> out,
                        result |-> IF result.threw THEN result
                                   ELSE Normal(Tagged(result.value, runnable[s]))]]
                 /\ allRejection' =
                       IF result.threw /\ allRejection = <<>>
                       THEN <<result.value>> ELSE allRejection
                 /\ completion' = Append(completion, s)
    /\ UNCHANGED <<content, selectedRules, pc, spec, specTitle, diagnostics,
                   runnable, invoked, phases, returned, other>>

\* Promise.all(promises) is fulfilled once every promise is
AllFulfilled(cs) == \A s \in 1..Len(cs) : cs[s].state = "fulfilled"

\* the value of Promise.all(promises): the values of the promises in the order
\* of `promises`, whatever the order they were fulfilled in
ResultsInCompletionOrder(cs, order) ==
    [k \in 1..Len(order) |-> cs[order[k]].result.value]
Results(cs, order) == [s \in 1..Len(cs) |-> cs[s].result.value]

\* const results = await Promise.all(...); diagnostics = results.flat(); return
JoinFulfilled ==
    /\ pc = "awaiting"
    /\ AllFulfilled(calls)
    /\ Return(Flat(Results(calls, completion)), specTitle)
    /\ phases' = phases \o <<"Flattened">>
    /\ UNCHANGED <<content, selectedRules, spec, specTitle, runnable, invoked,
                   calls, allRejection, completion, other>>

\* await Promise.all(...) throws the reason of the first rejected callback
JoinRejected ==
    /\ pc = "awaiting"
    /\ allRejection # <<>>
    /\ Caught(allRejection[1], specTitle)
    /\ UNCHANGED <<content, selectedRules, spec, specTitle, runnable, invoked,
                   calls, allRejection, completion, phases, other>>

Next ==
    \/ Start
    \/ \E s \in 1..MaxRules : Settle(s)
    \/ JoinFulfilled
    \/ JoinRejected

Spec == Init /\ [][Next]_vars

\* every check capability that was invoked settles, and the event loop runs
\* the continuation of runLinter once Promise.all has settled
FairSpec ==
    /\ Spec
    /\ WF_vars(Start)
    /\ \A s \in 1..MaxRules : WF_vars(Settle(s))
    /\ WF_vars(JoinFulfilled)
    /\ WF_vars(JoinRejected)

-----------------------------------------------------------------------------
(* Two activations of runLinter *)

\* The arguments and locals of runLinter belong to one activation of the
\* function; the registry functionsMap is the only module-level binding the
\* function reads, and no statement of the function assigns to it or to a
\* property of selectedRules.  Two runs started by the same caller take
\* turns between their steps: a run is left at its await and entered again
\* when one of its promises settles.

\* the activation that is running, as a record
Running ==
    [content |-> content, selectedRules |-> selectedRules, pc |-> pc,
     spec |-> spec, specTitle |-> specTitle, diagnostics |-> diagnostics,
     runnable |-> runnable, invoked |-> invoked, calls |-> calls,
     allRejection |-> allRejection, completion |-> completion,
     phases |-> phases, returned |-> returned]

\* runLinter(text, selection) at its call: const diagnostics = [], let specTitle
Called(text, selection) ==
    [content |-> text, selectedRules |-> selection, pc |-> "start",
     spec |-> Undefined, specTitle |-> Undefined, diagnostics |-> <<>>,
     runnable |-> <<>>, invoked |-> <<>>, calls |-> <<>>,
     allRejection |-> <<>>, completion |-> <<>>,
     phases |-> <<"Start">>, returned |-> <<>>]

\* the texts and the selections of the two runs
RepeatTexts ==
    { t \in Texts :
        /\ t.length = MaxLen
        /\ t.load.threw \/ t.load.value = TitledDocument(Str("Petstore")) }
RepeatSelections ==
    { Undefined,
      Arr(<<Descriptor(NullProtoObject)>>),
      Arr(<<Descriptor(Str("checkCRUD"))>>),
      Arr(<<Descriptor(Str("checkCRUD")), Descriptor(Str("checkHttpsServers"))>>) }

\* both runs have been called and neither has run a statement yet
RepeatInit ==
    /\ content \in RepeatTexts
    /\ selectedRules \in RepeatSelections
    /\ pc = "start"
    /\ spec = Undefined
    /\ specTitle = Undefined
    /\ diagnostics = <<>>
    /\ runnable = <<>>
    /\ invoked = <<>>
    /\ calls = <<>>
    /\ allRejection = <<>>
    /\ completion = <<>>
    /\ phases = <<"Start">>
    /\ returned = <<>>
    /\ \E t \in RepeatTexts, sel \in RepeatSelections :
          other = [activation |-> Called(t, sel), interleaved |-> FALSE]

\* the suspended activation is entered again with the bindings it was left with
ResumeSharingDiagnostics(a) ==
    /\ content' = a.content
    /\ selectedRules' = a.selectedRules
    /\ pc' = a.pc
    /\ spec' = a.spec
    /\ specTitle' = a.specTitle
    /\ diagnostics' = diagnostics
    /\ runnable' = a.runnable
    /\ invoked' = a.invoked
    /\ calls' = a.calls
    /\ allRejection' = a.allRejection
    /\ completion' = a.completion
    /\ phases' = a.phases
    /\ returned' = a.returned
Resume(a) ==
    /\ content' = a.content
    /\ selectedRules' = a.selectedRules
    /\ pc' = a.pc
    /\ spec' = a.spec
    /\ specTitle' = a.specTitle
    /\ diagnostics' = a.diagnostics
    /\ runnable' = a.runnable
    /\ invoked' = a.invoked
    /\ calls' = a.calls
    /\ allRejection' = a.allRejection
    /\ completion' = a.completion
    /\ phases' = a.phases
    /\ returned' = a.returned

\* the event loop leaves the running activation between two of its steps and
\* enters the other one; `interleaved` records that both were between their
\* first await and their return at such a moment
Switch ==
    /\ other # <<>>
    /\ other' = [activation |-> Running,
                 interleaved |-> \/ other.interleaved
                                 \/ pc = "awaiting" /\ other.activation.pc = "awaiting"]
    /\ Resume(other.activation)

RepeatNext == Next \/ Switch

RepeatSpec == RepeatInit /\ [][RepeatNext]_vars

-----------------------------------------------------------------------------
(* Vocabulary of the properties *)

ParseFailed == YamlLoad(content).threw

Range(seq) == { seq[k] : k \in DOMAIN seq }

\* the diagnostics of the Run Results produced so far
ResultDiagnostics == UNION { Range(r.diagnostics) : r \in Range(returned) }

\* the positions of selectedRules whose descriptor names a registered rule
NamesRegisteredRule(rule) ==
    /\ CallFunction(rule).type = "string"
    /\ CallFunction(rule).value \in RegistryKeys

SelectedPositions ==
    IF selectedRules.type = "array" THEN DOMAIN selectedRules.items ELSE {}

\* the positions of selectedRules whose rule function was invoked
InvokedPositions == { invoked[s].rule : s \in DOMAIN invoked }

\* the slots whose invocation has thrown or rejected
FailedSlots == { s \in DOMAIN calls : calls[s].state # "pending" /\ calls[s].out.threw }

\* the slots whose invocation has returned
ReturnedSlots == { s \in DOMAIN calls : calls[s].state # "pending" /\ ~calls[s].out.threw }

OriginBefore(a, b) == a[1] < b[1] \/ (a[1] = b[1] /\ a[2] < b[2])

-----------------------------------------------------------------------------
(* C1..C10 *)

\* C1 (totality): the promise of runLinter never rejects, whatever the text,
\* the descriptors and the behaviour of the check capabilities are.
C1_NeverRejects == pc # "rejected"

\* C2 (parse-failure short-circuit): when yaml.load throws, no rule function
\* is ever invoked, and the run ends at once with a result that has no title
\* and exactly one diagnostic: source "parser", severity error, from 0, to the
\* length of the text.
C2_ParseFailureShortCircuit ==
    ParseFailed =>
        /\ invoked = <<>>
        /\ calls = <<>>
        /\ pc \in {"start", "done"}
        /\ pc = "done" =>
             /\ Len(returned) = 1
             /\ returned[1].specTitle = Undefined
             /\ Len(returned[1].diagnostics) = 1
             /\ returned[1].diagnostics[1].source = "parser"
             /\ returned[1].diagnostics[1].severity = "error"
             /\ returned[1].diagnostics[1].from = 0
             /\ returned[1].diagnostics[1].to = content.length

\* C2 witness: a text that fails to parse, a selection that holds a registered
\* rule, and the run has ended.
C2_Witness ==
    /\ ParseFailed
    /\ pc = "done"
    /\ \E i \in SelectedPositions : NamesRegisteredRule(selectedRules.items[i])

\* C3 (failure isolation): in a result, every rule whose invocation threw or
\* rejected has exactly one diagnostic of its own, with the rule's function
\* identifier as source, severity error and the full text as span, and the
\* diagnostics every other rule returned are all there.
C3_FailureIsolation ==
    \A r \in Range(returned) :
        /\ \A s \in FailedSlots :
              Cardinality({ k \in DOMAIN r.diagnostics :
                              /\ r.diagnostics[k].origin[1] = runnable[s]
                              /\ r.diagnostics[k].source = invoked[s].function
                              /\ r.diagnostics[k].severity = "error"
                              /\ r.diagnostics[k].from = 0
                              /\ r.diagnostics[k].to = content.length }) = 1
        /\ FailedSlots # {} =>
              \A s \in DOMAIN calls :
                  /\ calls[s].state # "pending"
                  /\ ~calls[s].out.threw =>
                        Range(calls[s].result.value) \subseteq Range(r.diagnostics)

\* C4 (order preservation): in a result, the diagnostics of a rule selected
\* earlier all come before those of a rule selected later, and the diagnostics
\* of one rule are in the order the rule gave them, whatever the order in which
\* the invocations completed.
C4_OrderPreservation ==
    \A r \in Range(returned) :
        \A p, q \in DOMAIN r.diagnostics :
            p < q => OriginBefore(r.diagnostics[p].origin, r.diagnostics[q].origin)

\* C4 witness: two rules, the second completed before the first, and the
\* result holds diagnostics of both.
C4_Witness ==
    /\ pc = "done"
    /\ Len(calls) >= 2
    /\ completion[1] = 2
    /\ \E p, q \in DOMAIN returned[1].diagnostics :
          /\ returned[1].diagnostics[p].origin = <<runnable[1], 2>>
          /\ returned[1].diagnostics[q].origin = <<runnable[2], 1>>

\* C5 (resolution filtering): a descriptor that names no registered rule is
\* never invoked and has no diagnostic in a result, and once the text has
\* parsed and the selection is a non-empty array, every descriptor that names
\* a registered rule has been invoked.
C5_ResolutionFiltering ==
    /\ \A i \in SelectedPositions :
          ~NamesRegisteredRule(selectedRules.items[i]) =>
              /\ i \notin InvokedPositions
              /\ \A d \in ResultDiagnostics : d.origin[1] # i
    /\ (pc # "start" /\ ~ParseFailed) =>
          \A i \in SelectedPositions :
              NamesRegisteredRule(selectedRules.items[i]) => i \in InvokedPositions

\* C6 (offset validity): every diagnostic of every result has
\* 0 <= from <= to <= length of the text.
C6_OffsetValidity ==
    \A d \in ResultDiagnostics :
        0 <= d.from /\ d.from <= d.to /\ d.to <= content.length

\* C7 (fan-in join): no result is produced while an invocation of the run is
\* still pending.
C7_FanInJoin ==
    returned # <<>> => \A s \in DOMAIN calls : calls[s].state # "pending"

\* C8 (exactly one result): when every invoked check capability settles, the
\* run produces a Run Result, and never more than one.
C8_ExactlyOneResult ==
    /\ [](Len(returned) <= 1)
    /\ <>(Len(returned) = 1)

\* C9 (empty or invalid selection): when the text parses and selectedRules is
\* an empty array or no array, the run ends with no diagnostics and the title
\* of the document's info section, and no rule function is invoked.
C9_NothingSelectedNoOp ==
    (/\ ~ParseFailed
     /\ selectedRules.type # "array" \/ selectedRules.items = <<>>
     /\ pc # "start") =>
        /\ pc = "done"
        /\ invoked = <<>>
        /\ Len(returned) = 1
        /\ returned[1].diagnostics = <<>>
        /\ \A t \in {Str("Petstore"), Num(7)} :
              YamlLoad(content).value = TitledDocument(t) => returned[1].specTitle = t
        /\ YamlLoad(content).value \in {Undefined, UntitledDocument} =>
              returned[1].specTitle = Undefined

\* C9 witness: a titled document run with a selection that is no array.
C9_Witness ==
    /\ pc = "done"
    /\ selectedRules = Undefined
    /\ YamlLoad(content) = Normal(TitledDocument(Str("Petstore")))
    /\ returned[1].specTitle = Str("Petstore")

\* C10 (source attribution): the source tells the three kinds of diagnostic
\* apart.  No result holds a finding, a diagnostic that an invocation
\* returned, whose source is "parser" or the function identifier of a rule of
\* the run, and the diagnostic of the outer catch, whose source is "parser",
\* is in a result only when the text failed to parse.
C10_SourceAttribution ==
    \A r \in Range(returned) :
        \A d \in Range(r.diagnostics) :
            /\ (\E s \in ReturnedSlots : runnable[s] = d.origin[1]) =>
                  /\ d.source # "parser"
                  /\ \A s \in DOMAIN invoked : d.source # invoked[s].function
            /\ d.origin = <<0, 0>> => ParseFailed

-----------------------------------------------------------------------------
(* C11..C19 *)

\* C11 (title typing): the title of every Run Result is absent or a string.
C11_TitleTyping ==
    \A r \in Range(returned) : r.specTitle.type \in {"undefined", "string"}

\* the slots whose invocation has returned something that is no array
NonArraySlots == { s \in ReturnedSlots : ~IsArray(calls[s].out.value) }

\* C12 (non-sequence return is coerced): a rule whose invocation returned
\* something that is no array has no diagnostic at all in a result, and when
\* no callback rejected, the result of such a run holds the diagnostics of
\* every other rule.
C12_NonSequenceCoerced ==
    \A r \in Range(returned) :
        NonArraySlots # {} =>
            /\ \A s \in NonArraySlots :
                  \A d \in Range(r.diagnostics) : d.origin[1] # runnable[s]
            /\ allRejection = <<>> =>
                  \A t \in DOMAIN calls :
                      /\ calls[t].state = "fulfilled"
                      /\ Range(calls[t].result.value) \subseteq Range(r.diagnostics)

\* C12 witness: the first rule returned no array, the second returned
\* findings, and the result holds exactly those findings.
C12_Witness ==
    /\ pc = "done"
    /\ Len(calls) = 2
    /\ 1 \in NonArraySlots
    /\ 2 \in ReturnedSlots
    /\ Len(returned[1].diagnostics) = MaxFindings
    /\ \A d \in Range(returned[1].diagnostics) : d.origin[1] = runnable[2]

\* the slots of registered rules whose check returned something that is no array
MalformedSlots ==
    { s \in NonArraySlots : NamesRegisteredRule(selectedRules.items[runnable[s]]) }

\* a diagnostic tagged with the rule of slot s, as the catch of the callback
\* builds it
TaggedWithRule(d, s) ==
    /\ d.origin[1] = runnable[s]
    /\ d.source = invoked[s].function
    /\ d.severity = "error"

\* C13 (malformed result reported as a failure): a rule whose invocation
\* returned something that is no array has a diagnostic tagged with the rule
\* in the result, as when it throws.
C13_MalformedResultReported ==
    \A r \in Range(returned) :
        \A s \in MalformedSlots :
            \E d \in Range(r.diagnostics) : TaggedWithRule(d, s)

\* C13 as amended: a rule whose invocation returned something that is no
\* array has no diagnostic tagged with the rule in a result.
C13_MalformedResultNotReported ==
    \A r \in Range(returned) :
        \A s \in MalformedSlots :
            \A d \in Range(r.diagnostics) : ~TaggedWithRule(d, s)

\* C13 witness: the only rule of the run returned no array and the result
\* is empty.
C13_Witness ==
    /\ pc = "done"
    /\ Len(calls) = 1
    /\ MalformedSlots = {1}
    /\ calls[1].out = Normal(Undefined)
    /\ returned[1].diagnostics = <<>>

\* C14 (fan-out): once the synchronous part of the run is over, every
\* resolved rule has been invoked, and every pending invocation can settle
\* whatever the state of the others.
C14_FanOut ==
    pc # "start" =>
        /\ Len(invoked) = Len(runnable)
        /\ Len(calls) = Len(runnable)
        /\ \A s \in DOMAIN runnable : invoked[s].rule = runnable[s]
        /\ \A s \in DOMAIN calls : calls[s].state = "pending" => ENABLED Settle(s)

\* C14 witness: the first invocation is still pending and the second has
\* settled with findings.
C14_Witness ==
    /\ pc = "awaiting"
    /\ Len(calls) = 2
    /\ calls[1].state = "pending"
    /\ calls[2].state = "fulfilled"
    /\ Len(calls[2].result.value) = MaxFindings

\* the lifecycle of a run whose text parses
Lifecycle == <<"Start", "Parsed", "Selected", "Resolved", "Executing", "Flattened">>

\* the phases entered so far are a start of the lifecycle, or the text failed
\* to parse
PhasesInOrder ==
    \/ phases = <<"Start", "ParseFailed">>
    \/ /\ Len(phases) <= Len(Lifecycle)
       /\ phases = SubSeq(Lifecycle, 1, Len(phases))

\* a rule function is invoked only after the text has parsed and the
\* selection has been resolved
InvokedAfterResolved ==
    invoked # <<>> =>
        /\ ~content.load.threw
        /\ \E k \in DOMAIN phases : phases[k] = "Resolved"

\* C15 (run lifecycle ordering): the phases are entered in the order Start,
\* Parsed or ParseFailed, Selected, Resolved, Executing, Flattened; no rule
\* function is invoked before the text has parsed and the selection has been
\* resolved; a result is emitted in ParseFailed or in Flattened only.
C15_Lifecycle ==
    /\ PhasesInOrder
    /\ InvokedAfterResolved
    /\ returned # <<>> => phases[Len(phases)] \in {"ParseFailed", "Flattened"}

\* C15 as amended: as C15, but a result is also emitted in Parsed, empty,
\* when the selection is empty or no array, and in Selected or Executing,
\* by the outer catch, when the filter or the catch of a callback throws.
C15_LifecycleAmended ==
    /\ PhasesInOrder
    /\ InvokedAfterResolved
    /\ returned # <<>> =>
          \/ phases[Len(phases)] \in {"ParseFailed", "Flattened"}
          \/ /\ phases[Len(phases)] = "Parsed"
             /\ selectedRules.type # "array" \/ selectedRules.items = <<>>
             /\ returned[1].diagnostics = <<>>
          \/ /\ phases[Len(phases)] \in {"Selected", "Executing"}
             /\ Len(returned[1].diagnostics) = 1
             /\ returned[1].diagnostics[1].origin = <<0, 0>>

\* C15 witness: a run that went through the whole lifecycle and emitted
\* diagnostics.
C15_Witness ==
    /\ pc = "done"
    /\ phases = Lifecycle
    /\ returned[1].diagnostics # <<>>

\* C16 (exactly-once dispatch): in a run whose text parses, the text is
\* parsed once, and once the selection is resolved every element of it that
\* is runnable, duplicates included, has exactly one invocation, made with
\* the parsed document, the raw text and that element as arguments; nothing
\* else is invoked.
C16_ExactlyOnceDispatch ==
    (~content.load.threw /\ pc # "start") =>
        /\ Cardinality({ k \in DOMAIN phases : phases[k] = "Parsed" }) = 1
        /\ spec = content.load.value
        /\ (\E k \in DOMAIN phases : phases[k] = "Resolved") =>
              \A i \in SelectedPositions :
                  Cardinality({ s \in DOMAIN invoked : invoked[s].rule = i }) =
                      IF IsRunnable(selectedRules.items[i]).value THEN 1 ELSE 0
        /\ \A s \in DOMAIN invoked :
              /\ invoked[s].spec = content.load.value
              /\ invoked[s].content = content
              /\ invoked[s].rule \in SelectedPositions
              /\ Str(invoked[s].function) = CallFunction(selectedRules.items[invoked[s].rule])

\* C16 witness: the same registered rule selected twice, and both elements
\* have their invocation.
C16_Witness ==
    /\ pc = "awaiting"
    /\ Len(invoked) = 2
    /\ invoked[1].function = invoked[2].function
    /\ invoked[1].rule = 1
    /\ invoked[2].rule = 2
    /\ NamesRegisteredRule(selectedRules.items[1])

\* C17 (title on success): whenever the text parses, the title of the result
\* is the title field of the info section of the parsed document, and absent
\* when the document has none, whichever rules were selected and whether or
\* not a rule failed.
C17_TitleOnSuccess ==
    \A r \in Range(returned) :
        ~content.load.threw =>
            LET doc == content.load.value
                titles == {Str("Petstore"), Num(7)}
            IN  /\ \A t \in titles : doc = TitledDocument(t) => r.specTitle = t
                /\ (\A t \in titles : doc # TitledDocument(t)) =>
                       r.specTitle = Undefined

\* C17 witness: a titled document, a rule that threw, and the result carries
\* both the failure diagnostic of the rule and the title.
C17_Witness ==
    /\ pc = "done"
    /\ content.load = Normal(TitledDocument(Str("Petstore")))
    /\ FailedSlots # {}
    /\ returned[1].specTitle = Str("Petstore")
    /\ \E d \in Range(returned[1].diagnostics) :
           d.origin[1] # 0 /\ d.severity = "error"

\* C18 (parser attribution is exclusive to parse failures): a result holds a
\* diagnostic of the engine with source "parser" only if parsing the text
\* failed; a failure raised after a successful parse is never reported as a
\* parser diagnostic next to a title.
C18_ParserAttributionExclusive ==
    \A r \in Range(returned) :
        (\E d \in Range(r.diagnostics) :
            d.origin = <<0, 0>> /\ d.source = "parser") =>
                /\ content.load.threw
                /\ r.specTitle = Undefined

\* C19 (no cross-run state): runLinter leaves the registry and the caller's
\* selection and descriptors unchanged and keeps nothing between invocations:
\* the result of a run is the one its own text, its own selection and the
\* outcomes of its own rules determine, also when two runs take turns.

\* the settlement of a run that completes normally with `diags` and `title`
RunResult(diags, title) ==
    [pc |-> "done", returned |-> <<[diagnostics |-> diags, specTitle |-> title]>>]

\* the settlement of a run whose outer catch received `error`
CaughtResult(error, len, title) ==
    LET caught == CatchParser(error, len)
    IN  IF caught.threw THEN [pc |-> "rejected", returned |-> <<>>]
        ELSE RunResult(<<caught.value>>, title)

\* the settlement of a run of runLinter(text, selection) whose invocations
\* had the outcomes `outs` and completed in the order `order`
ExpectedRun(text, selection, outs, order) ==
    IF text.load.threw
    THEN CaughtResult(text.load.value, text.length, Undefined)
    ELSE LET title == Title(text.load.value)
         IN  IF NothingSelected(selection) THEN RunResult(<<>>, title)
             ELSE LET kept == Filter(selection.items)
                  IN  IF kept.threw
                      THEN CaughtResult(kept.value, text.length, title)
                      ELSE LET results ==
                                   [s \in 1..Len(kept.value) |->
                                      MapCallback(FuncName(selection.items[kept.value[s]]),
                                                  text.length, outs[s])]
                               rejected == SelectSeq(order, LAMBDA s : results[s].threw)
                           IN  IF rejected # <<>>
                               THEN CaughtResult(results[rejected[1]].value,
                                                 text.length, title)
                               ELSE RunResult(
                                      Flat([s \in 1..Len(kept.value) |->
                                              Tagged(results[s].value, kept.value[s])]),
                                      title)

\* a settled activation has the settlement its own inputs determine
OwnInputsOnly(a) ==
    a.pc \in {"done", "rejected"} =>
        [pc |-> a.pc, returned |-> a.returned] =
            ExpectedRun(a.content, a.selectedRules,
                        [s \in DOMAIN a.calls |-> a.calls[s].out], a.completion)

\* a step leaves the text and the selection of either run as the caller
\* passed them
CallerInputsKept ==
    LET mine == <<content, selectedRules>>
        theirs == <<other.activation.content, other.activation.selectedRules>>
        mineAfter == <<content', selectedRules'>>
        theirsAfter == <<other'.activation.content, other'.activation.selectedRules>>
    IN  \/ mineAfter = mine /\ theirsAfter = theirs
        \/ mineAfter = theirs /\ theirsAfter = mine

C19_NoCrossRunState ==
    /\ [](OwnInputsOnly(Running) /\ OwnInputsOnly(other.activation))
    /\ [][CallerInputsKept]_vars

\* C19 witness: two runs that were both between their await and their return
\* at the same time have settled, each with diagnostics of its own rules.
C19_Witness ==
    /\ other.interleaved
    /\ pc = "done"
    /\ other.activation.pc = "done"
    /\ Len(calls) = 2
    /\ returned[1].diagnostics # <<>>
    /\ other.activation.returned[1].diagnostics # <<>>
    /\ returned # other.activation.returned

====
